---- MODULE Spec2Model ----
(***************************************************************************)
(* Model of src/ytdlp_gradio/app.py: the URL classifier, DownloadConfig,   *)
(* the progress hook of DownloadManager and the download() orchestration   *)
(* with its audio-codec fallback retry.                                    *)
(*                                                                         *)
(* Text is modelled as a sequence of one-character strings, so that        *)
(* re.search, str.lower and the `in` substring test are computed.          *)
(* Floating-point fractions are modelled as exact rationals [n, d];        *)
(* d = 0 stands for Python's None (the indeterminate progress signal).     *)
(* The external library (yt_dlp.YoutubeDL.extract_info and the progress    *)
(* events it delivers) is a nondeterministic environment.                  *)
(***************************************************************************)
EXTENDS Integers, Sequences, FiniteSets, TLC

\* ------------------------------------------------------------------------
\* Bounds of the model
\* ------------------------------------------------------------------------
MaxEntries == 3

\* 'finished' events are delivered while current_video.num is at most this
MaxNum == 3

MaxBytes == 2

Runs == {1, 2}

\* ------------------------------------------------------------------------
\* Text
\* ------------------------------------------------------------------------
PatVimeo == <<"v","i","m","e","o",".","c","o","m">>

PatShowcase == <<"v","i","m","e","o",".","c","o","m","/","s","h","o","w","c","a","s","e","/">>

PatYtPlaylist == <<"y","o","u","t","u","b","e",".","c","o","m","/","p","l","a","y","l","i","s","t">>

PatYtHost == <<"y","o","u","t","u","b","e",".","c","o","m","/">>

PatList == <<"l","i","s","t","=">>

UrlEmpty == << >>

UrlPage == <<"e","x","a","m","p","l","e",".","c","o","m","/","m","e","d","i","a">>

UrlWatchList == <<"y","o","u","t","u","b","e",".","c","o","m","/","w","a","t","c","h","?","v","=","a","b","c","&","l","i","s","t","=","P","L","1">>

UrlShowcase == <<"v","i","m","e","o",".","c","o","m","/","s","h","o","w","c","a","s","e","/","9">>

\* The URLs of the runs: empty, matching no pattern, a YouTube watch URL with a
\* list parameter, a Vimeo showcase
Urls == {UrlEmpty, UrlPage, UrlWatchList, UrlShowcase}

MsgHttp == <<"H","T","T","P"," ","E","r","r","o","r"," ","4","0","4">>

MsgMp3 == <<"U","n","a","b","l","e"," ","t","o"," ","d","o","w","n","l","o","a","d"," ","a",".","M","P","3">>

MsgConv == <<"A","u","d","i","o"," ","c","o","n","v","e","r","s","i","o","n"," ","f","a","i","l","e","d">>

MsgEnc == <<"E","n","c","o","d","e","r"," ","n","o","t"," ","f","o","u","n","d">>

MsgPP == <<"P","o","s","t","P","r","o","c","e","s","s","o","r"," ","e","r","r","o","r">>

MsgNoneType == <<"a","r","g","u","m","e","n","t"," ","o","f"," ","t","y","p","e"," ","'","N","o","n","e","T","y","p","e","'"," ","i","s"," ","n","o","t"," ","i","t","e","r","a","b","l","e">>

SubMp3 == <<"m","p","3">>

SubConv == <<"a","u","d","i","o"," ","c","o","n","v","e","r","s","i","o","n"," ","f","a","i","l","e","d">>

SubEnc == <<"e","n","c","o","d","e","r"," ","n","o","t"," ","f","o","u","n","d">>

SubPP == <<"p","o","s","t","p","r","o","c","e","s","s","o","r">>

\* The messages the exceptions of the library's download carry in the model
DownloadMessages == {MsgHttp, MsgConv, MsgEnc, MsgPP}

\* The messages the exceptions of the library's metadata probe carry
ProbeMessages == {MsgHttp, MsgMp3}

\* pat occurs in s starting at position i (1-based)
MatchAt(s, pat, i) == /\ i >= 1
                      /\ i + Len(pat) - 1 <= Len(s)
                      /\ \A k \in 1..Len(pat) : s[i + k - 1] = pat[k]

\* Python's `pat in s`, and re.search of a pattern without metacharacters
Contains(s, pat) == \E i \in 1..(Len(s) + 1) : MatchAt(s, pat, i)

\* re.search(head + '.*' + tail, s): '.' matches any character but a newline
SearchGap(s, head, tail) == \E i \in 1..(Len(s) + 1) : /\ MatchAt(s, head, i)
                                                        /\ \E j \in (i + Len(head))..(Len(s) + 1) : /\ MatchAt(s, tail, j)
                                                                                                    /\ \A k \in (i + Len(head))..(j - 1) : s[k] # "\n"

UpperToLower == [c \in {"A","B","C","D","E","F","G","H","I","J","K","L","M","N","O","P","Q","R","S","T","U","V","W","X","Y","Z"} |-> CASE c = "A" -> "a" [] c = "B" -> "b" [] c = "C" -> "c" [] c = "D" -> "d" [] c = "E" -> "e" [] c = "F" -> "f" [] c = "G" -> "g" [] c = "H" -> "h" [] c = "I" -> "i" [] c = "J" -> "j" [] c = "K" -> "k" [] c = "L" -> "l" [] c = "M" -> "m" [] c = "N" -> "n" [] c = "O" -> "o" [] c = "P" -> "p" [] c = "Q" -> "q" [] c = "R" -> "r" [] c = "S" -> "s" [] c = "T" -> "t" [] c = "U" -> "u" [] c = "V" -> "v" [] c = "W" -> "w" [] c = "X" -> "x" [] c = "Y" -> "y" [] OTHER -> "z"]

\* str.lower()
Lower(s) == [k \in 1..Len(s) |-> IF s[k] \in DOMAIN UpperToLower THEN UpperToLower[s[k]] ELSE s[k]]

\* ------------------------------------------------------------------------
\* URL utilities
\* ------------------------------------------------------------------------
is_vimeo_url(url) == Contains(url, PatVimeo)

is_vimeo_showcase(url) == Contains(url, PatShowcase)

\* is_playlist without the fall-through to the Vimeo showcase test
is_playlist_youtube_only(url) == Contains(url, PatYtPlaylist) \/ SearchGap(url, PatYtHost, PatList)

\* is_playlist: the two YouTube patterns, else is_vimeo_showcase
is_playlist(url) == IF Contains(url, PatYtPlaylist) \/ SearchGap(url, PatYtHost, PatList) THEN TRUE ELSE is_vimeo_showcase(url)

\* ------------------------------------------------------------------------
\* Fractions
\* ------------------------------------------------------------------------
Frac(n, d) == [n |-> n, d |-> d]

PyNone == Frac(0, 0)

IsNoneFrac(f) == f.d = 0

FInt(k) == Frac(k, 1)

FAdd(f, g) == Frac(f.n * g.d + g.n * f.d, f.d * g.d)

FDiv(f, g) == Frac(f.n * g.d, f.d * g.n)

FLeq(f, g) == f.n * g.d <= g.n * f.d

FEq(f, g) == f.n * g.d = g.n * f.d

\* the literal 0.5 of line 125
Half == Frac(1, 2)

InUnitInterval(f) == FLeq(FInt(0), f) /\ FLeq(f, FInt(1))

\* ------------------------------------------------------------------------
\* Download configuration
\* ------------------------------------------------------------------------
\* Python's None for an optional string or an attribute that is not set
NoneStr == "None"

Passwords == {NoneStr, "secret"}

Platforms == {"windows", "linux"}

output_dir == "downloads"

\* DownloadConfig(url, video_password, audio_only).__post_init__ on a platform
DownloadConfig(url, video_password, audio_only, system) == IF audio_only
    THEN LET codec == IF system = "windows" THEN "m4a" ELSE "mp3"
         IN [url |-> url, video_password |-> video_password, audio_only |-> TRUE, output_dir |-> output_dir,
             format_option |-> "bestaudio",
             file_extension |-> codec,
             preferred_codec |-> codec,
             post_processors |-> << [key |-> "FFmpegExtractAudio", preferredcodec |-> codec, preferredquality |-> "192"] >>]
    ELSE [url |-> url, video_password |-> video_password, audio_only |-> FALSE, output_dir |-> output_dir,
          format_option |-> "bestvideo+bestaudio",
          file_extension |-> "mp4",
          preferred_codec |-> NoneStr,
          post_processors |-> << [key |-> "FFmpegVideoConvertor", preferedformat |-> "mp4"] >>]

\* DownloadConfig.get_ydl_opts (the progress hook is the manager's own)
get_ydl_opts(cfg) == [format |-> cfg.format_option,
                      outtmpl |-> <<cfg.output_dir, "%(title)s.%(ext)s">>,
                      verbose |-> is_playlist(cfg.url),
                      ignoreerrors |-> TRUE,
                      postprocessors |-> cfg.post_processors,
                      merge_output_format |-> IF ~cfg.audio_only THEN "mp4" ELSE NoneStr,
                      videopassword |-> IF cfg.video_password # NoneStr THEN cfg.video_password ELSE NoneStr]

\* update_to_m4a that rewrites the codec and forgets the extension
update_to_m4a_codec_only(cfg) == IF cfg.audio_only
    THEN [cfg EXCEPT !.post_processors[1].preferredcodec = "m4a", !.preferred_codec = "m4a"]
    ELSE cfg

\* update_to_m4a without the audio_only test
update_to_m4a_unguarded(cfg) == IF cfg.audio_only
    THEN [cfg EXCEPT !.post_processors[1].preferredcodec = "m4a", !.file_extension = "m4a", !.preferred_codec = "m4a"]
    ELSE [cfg EXCEPT !.post_processors = << [key |-> "FFmpegVideoConvertor", preferedformat |-> "mp4", preferredcodec |-> "m4a"] >>,
                     !.file_extension = "m4a", !.preferred_codec = "m4a"]

\* DownloadConfig.update_to_m4a
update_to_m4a(cfg) == IF cfg.audio_only
    THEN [cfg EXCEPT !.post_processors[1].preferredcodec = "m4a",
                     !.file_extension = "m4a",
                     !.preferred_codec = "m4a"]
    ELSE cfg

\* ------------------------------------------------------------------------
\* The external library's metadata
\* ------------------------------------------------------------------------
\* extract_info returns None when ignoreerrors swallowed the failure
NoneInfo == [none |-> TRUE]

Titles == {"A"}

NoneEntry == [none |-> TRUE]

Entry(t) == [title |-> t]

EntryValues == {NoneEntry} \cup {Entry(t) : t \in Titles}

EntryLists == UNION {[1..n -> EntryValues] : n \in 0..MaxEntries}

SingleInfo(t) == [title |-> t]

PlaylistInfo(t, es) == [title |-> t, entries |-> es]

Metadata == {SingleInfo(t) : t \in Titles} \cup {PlaylistInfo("PL", es) : es \in EntryLists}

\* 'entries' in info
HasEntries(m) == "entries" \in DOMAIN m

\* [entry for entry in entries if entry is not None]
RECURSIVE Available(_)
Available(es) == IF es = << >> THEN << >>
                 ELSE IF Head(es) # NoneEntry THEN <<Head(es)>> \o Available(Tail(es))
                 ELSE Available(Tail(es))

\* ------------------------------------------------------------------------
\* Progress events and the progress hook
\* ------------------------------------------------------------------------
\* Event filenames, as the parts that str.split('/') yields
Filenames == {<<"downloads", "A.mp4">>}

\* filename.split('/')[-1]
Basename(path) == IF path = << >> THEN "" ELSE path[Len(path)]

\* The events d the library hands to progress_hook. A byte counter of 0
\* stands for a counter that is absent, None or 0 (all falsy for d.get).
\* The library reports downloaded_bytes <= total_bytes when the total is known.
DownloadingEvents == {[status |-> "downloading", downloaded_bytes |-> b, total_bytes |-> t, filename |-> f] : b \in 0..MaxBytes, t \in 0..MaxBytes, f \in Filenames}

Events == {d \in DownloadingEvents : d.total_bytes = 0 \/ d.downloaded_bytes <= d.total_bytes} \cup {[status |-> s, downloaded_bytes |-> 0, total_bytes |-> 0, filename |-> << >>] : s \in {"finished", "error"}}

NoEvent == [status |-> "none", downloaded_bytes |-> 0, total_bytes |-> 0, filename |-> << >>]

\* self.progress(value, desc=...): the last call the progress object received
Call(value, kind, num, total, filename) == [value |-> value, desc |-> [kind |-> kind, num |-> num, total |-> total, filename |-> filename]]

NoCall == Call(PyNone, "unset", 0, 0, "")

\* is_playlist(self.config.url) and self.current_video["total"] > 1
IsMulti(cfg, cv) == is_playlist(cfg.url) /\ cv.total > 1

\* the share of the current item that is left instead of the share done
OverallKnown_remaining(cv, percentage) == FDiv(FAdd(FInt(cv.num - 1), FAdd(FInt(1), Frac(0 - percentage.n, percentage.d))), FInt(cv.total))

\* line 114: ((num - 1) + percentage) / total
OverallKnown(cv, percentage) == FDiv(FAdd(FInt(cv.num - 1), percentage), FInt(cv.total))

\* lines 123-125: (num - 1) / total + 0.5 / total
OverallUnknown(cv) == FAdd(FDiv(FInt(cv.num - 1), FInt(cv.total)), FDiv(Half, FInt(cv.total)))

\* line 131: num / total
FinishedFraction(cv) == FDiv(FInt(cv.num), FInt(cv.total))

\* a 'finished' event that stops short of 1.0
FinishedSingle_short == Frac(99, 100)

\* line 135: the fraction a 'finished' event emits in a single-item run
FinishedSingle == FInt(1)

\* DownloadManager.progress_hook: the manager's current_video and the last
\* progress call after the hook has handled d
progress_hook(cfg, cv, prog, d) == IF d.status = "downloading"
    THEN LET filename == Basename(d.filename)
             multi == IsMulti(cfg, cv)
             cv1 == IF multi THEN [cv EXCEPT !.title = filename] ELSE cv
             pnum == IF multi THEN cv.num ELSE 0
             ptotal == IF multi THEN cv.total ELSE 0
         IN IF d.total_bytes # 0
            THEN LET percentage == FDiv(FInt(d.downloaded_bytes), FInt(d.total_bytes))
                 IN [current_video |-> cv1,
                     progress |-> Call(IF multi THEN OverallKnown(cv, percentage) ELSE percentage, "Downloading", pnum, ptotal, filename)]
            ELSE IF d.downloaded_bytes # 0
            THEN [current_video |-> cv1,
                  progress |-> Call(IF multi THEN OverallUnknown(cv) ELSE PyNone, "DownloadingMB", pnum, ptotal, filename)]
            ELSE [current_video |-> cv1, progress |-> prog]
    ELSE IF d.status = "finished"
    THEN IF IsMulti(cfg, cv)
         THEN [current_video |-> [cv EXCEPT !.num = cv.num + 1],
               progress |-> Call(FinishedFraction(cv), "VideoComplete", cv.num, cv.total, "")]
         ELSE [current_video |-> cv, progress |-> Call(FinishedSingle, "DownloadComplete", 0, 0, "")]
    ELSE [current_video |-> cv, progress |-> prog]

\* ------------------------------------------------------------------------
\* Result texts (a text is the sequence of its lines)
\* ------------------------------------------------------------------------
\* os.path.join(output_dir, f"{title}.{file_extension}")
FilePath(cfg, title) == [dir |-> cfg.output_dir, title |-> title, ext |-> cfg.file_extension]

Noun(cfg) == IF cfg.audio_only THEN "audio tracks" ELSE "videos"

\* len(available_entries)
entry_count(m) == Len(Available(m.entries))

\* len(info['entries'])
total_entries(m) == Len(m.entries)

\* total_entries - entry_count
skipped_count(m) == total_entries(m) - entry_count(m)

\* the line of entry i in the playlist summary (lines 229-234)
EntryLine(cfg, m, i) == IF m.entries[i] # NoneEntry
    THEN [kind |-> "Entry", i |-> i, title |-> m.entries[i].title, path |-> FilePath(cfg, m.entries[i].title)]
    ELSE [kind |-> "EntrySkipped", i |-> i]

\* DownloadManager._format_playlist_result
format_playlist_result(cfg, m) == << [kind |-> "PlaylistTitle", title |-> m.title],
                                     [kind |-> "Number", noun |-> Noun(cfg), downloaded |-> entry_count(m), total |-> total_entries(m)] >>
                                  \o (IF skipped_count(m) > 0 THEN << [kind |-> "Skipped", count |-> skipped_count(m)] >> ELSE << >>)
                                  \o << [kind |-> "Blank"] >>
                                  \o [i \in 1..Len(m.entries) |-> EntryLine(cfg, m, i)]

\* DownloadManager._format_single_video_result
format_single_video_result(cfg, m) == << [kind |-> "DownloadedTo", path |-> FilePath(cfg, m.title)] >>

\* line 166: "\nNote: Using M4A format instead of MP3 for better compatibility"
NoteLine == [kind |-> "Note"]

\* the result message without the note of the fallback
result_text_no_note(cfg, m, attempt) == IF HasEntries(m) THEN format_playlist_result(cfg, m) ELSE format_single_video_result(cfg, m)

\* lines 205-209 and 166: the result message of the attempt that succeeded;
\* the second attempt is the fallback retry, which appends the note
result_text(cfg, m, attempt) == (IF HasEntries(m) THEN format_playlist_result(cfg, m) ELSE format_single_video_result(cfg, m))
                                \o (IF attempt = 2 THEN <<NoteLine>> ELSE << >>)

\* DownloadManager._create_notification
create_notification(cfg, m) == IF is_playlist(cfg.url) /\ HasEntries(m)
    THEN IF skipped_count(m) > 0
         THEN [kind |-> "Success", playlist |-> TRUE, downloaded |-> entry_count(m), noun |-> Noun(cfg), skipped |-> skipped_count(m), says_skipped |-> TRUE]
         ELSE [kind |-> "Success", playlist |-> TRUE, downloaded |-> entry_count(m), noun |-> Noun(cfg), skipped |-> 0, says_skipped |-> FALSE]
    ELSE [kind |-> "Success", playlist |-> FALSE, downloaded |-> 0, noun |-> "", skipped |-> 0, says_skipped |-> FALSE]

\* an error text that gives the password hint for every playlist URL
error_result_hint_all_playlists(cfg, msg) == [text |-> << [kind |-> "Error", msg |-> msg] >>
                                                        \o (IF is_playlist(cfg.url) THEN << [kind |-> "PlaylistHint"] >> ELSE << >>)
                                                        \o (IF is_playlist(cfg.url) THEN << [kind |-> "VimeoPasswordHint"] >> ELSE << >>),
                                             notification |-> [kind |-> "Warning"]]

\* lines 179-184: the error text and the warning of a failed run
error_result(cfg, msg) == [text |-> << [kind |-> "Error", msg |-> msg] >>
                                    \o (IF is_playlist(cfg.url) THEN << [kind |-> "PlaylistHint"] >> ELSE << >>)
                                    \o (IF is_playlist(cfg.url) /\ is_vimeo_showcase(cfg.url) THEN << [kind |-> "VimeoPasswordHint"] >> ELSE << >>),
                           notification |-> [kind |-> "Warning"]]

\* line 140: "Please enter a URL", None
empty_url_result == [text |-> << [kind |-> "PleaseEnterUrl"] >>, notification |-> [kind |-> "None"]]

NoOutcome == [text |-> << >>, notification |-> [kind |-> "unset"]]

\* the test of the fallback retry without the audio_only flag
IsAudioFailure_any_run(cfg, msg) == LET error_str == Lower(msg)
                                    IN Contains(error_str, SubMp3) \/ Contains(error_str, SubConv) \/ Contains(error_str, SubEnc) \/ Contains(error_str, SubPP)

\* a download() that does not test the URL
url_is_empty_unchecked(cfg) == FALSE

\* line 139: not self.config.url
url_is_empty(cfg) == cfg.url = << >>

\* lines 160-161: the test that selects the fallback retry
IsAudioFailure(cfg, msg) == LET error_str == Lower(msg)
                            IN cfg.audio_only /\ (Contains(error_str, SubMp3) \/ Contains(error_str, SubConv) \/ Contains(error_str, SubEnc) \/ Contains(error_str, SubPP))

\* ------------------------------------------------------------------------
\* State
\* ------------------------------------------------------------------------
VARIABLES platform, config, current_video, progress, pc, attempts, ydl_calls, info_dict, info, last_d, exc, result_message, outcome,
          url_input, widgets, url_class

vars == <<platform, config, current_video, progress, pc, attempts, ydl_calls, info_dict, info, last_d, exc, result_message, outcome, url_input, widgets, url_class>>

\* The page: the URL textbox, the widgets that check_url_type updates, and
\* the answers of the URL classifier for a value of the textbox
ui_vars == <<url_input, widgets, url_class>>

\* The textbox holds a URL as its parts; its text is their concatenation
UrlParts(prefix, host, path, query) == [prefix |-> prefix, host |-> host, path |-> path, query |-> query]

UrlText(u) == u.prefix \o u.host \o u.path \o u.query

EmptyParts == UrlParts(<< >>, << >>, << >>, << >>)

\* lines 282-295: the widgets as the page is built
InitialWidgets == [password_visible |-> FALSE, button_interactive |-> FALSE]

Unclassified == [of |-> EmptyParts, vimeo |-> FALSE, showcase |-> FALSE, playlist |-> FALSE, classified |-> FALSE]

NoExc == [site |-> "none", msg |-> << >>]

\* DownloadManager.__init__: self.current_video
InitialVideo == [num |-> 0, total |-> 1, title |-> ""]

\* The requests of the model. The password field is shown for Vimeo URLs
\* only (lines 284-290 and 306) and is submitted as it was left otherwise, so
\* the runs with a non-Vimeo URL carry no password, except the empty URL.
\* platform.system() is read on line 43 only, in the audio-only branch: a
\* video run leaves the platform unread.
Requests == {q \in [url : Urls, video_password : Passwords, audio_only : BOOLEAN, system : Platforms \cup {"unread"}] :
                /\ q.video_password # NoneStr => (q.url = UrlEmpty \/ is_vimeo_url(q.url))
                /\ q.audio_only <=> q.system \in Platforms}

\* download_video(url, video_password, audio_only): lines 271-272 have built
\* the configuration and the manager of run 1; run 2 is not called.
Init == /\ \E q \in Requests :
              /\ platform = q.system
              /\ config = [r \in Runs |-> IF r = 1 THEN DownloadConfig(q.url, q.video_password, q.audio_only, q.system)
                                                   ELSE DownloadConfig(UrlEmpty, NoneStr, FALSE, "unread")]
        /\ current_video = [r \in Runs |-> InitialVideo]
        /\ progress = [r \in Runs |-> NoCall]
        /\ pc = [r \in Runs |-> IF r = 1 THEN "idle" ELSE "absent"]
        /\ attempts = [r \in Runs |-> 0]
        /\ ydl_calls = [r \in Runs |-> [probe |-> 0, download |-> 0]]
        /\ info_dict = [r \in Runs |-> NoneInfo]
        /\ info = [r \in Runs |-> NoneInfo]
        /\ last_d = [r \in Runs |-> NoEvent]
        /\ exc = [r \in Runs |-> NoExc]
        /\ result_message = [r \in Runs |-> << >>]
        /\ outcome = [r \in Runs |-> NoOutcome]
        /\ url_input = EmptyParts
        /\ widgets = InitialWidgets
        /\ url_class = Unclassified

\* ------------------------------------------------------------------------
\* DownloadManager.download
\* ------------------------------------------------------------------------
\* lines 139-140: the empty URL is rejected before anything else happens
RejectEmptyUrl(r) == /\ pc[r] = "idle"
                     /\ url_is_empty(config[r])
                     /\ outcome' = [outcome EXCEPT ![r] = empty_url_result]
                     /\ pc' = [pc EXCEPT ![r] = "failed"]
                     /\ UNCHANGED <<platform, config, current_video, progress, attempts, ydl_calls, info_dict, info, last_d, exc, result_message>>
                     /\ UNCHANGED ui_vars

\* lines 142-156: progress(0), progress(0.01), the header text, and the
\* first call of _perform_download (up to its first extract_info)
StartDownload(r) == /\ pc[r] = "idle"
                    /\ ~url_is_empty(config[r])
                    /\ progress' = [progress EXCEPT ![r] = IF is_playlist(config[r].url)
                                                           THEN Call(Frac(1, 100), IF is_vimeo_showcase(config[r].url) THEN "ProcessingVimeoShowcase" ELSE "ProcessingYouTubePlaylist", 0, 0, "")
                                                           ELSE Call(Frac(1, 100), "Extracting", 0, 0, "")]
                    /\ result_message' = [result_message EXCEPT ![r] = IF is_playlist(config[r].url)
                                                                       THEN << [kind |-> "DownloadingFrom", audio_only |-> config[r].audio_only] >>
                                                                       ELSE << >>]
                    /\ attempts' = [attempts EXCEPT ![r] = 1]
                    /\ pc' = [pc EXCEPT ![r] = "probing"]
                    /\ UNCHANGED <<platform, config, current_video, ydl_calls, info_dict, info, last_d, exc, outcome>>
                    /\ UNCHANGED ui_vars

\* line 193: extract_info(url, download=False) returns metadata or None
ProbeReturns(r) == /\ pc[r] = "probing"
                   /\ \E m \in Metadata \cup {NoneInfo} : info_dict' = [info_dict EXCEPT ![r] = m]
                   /\ ydl_calls' = [ydl_calls EXCEPT ![r].probe = @ + 1]
                   /\ pc' = [pc EXCEPT ![r] = "probed"]
                   /\ UNCHANGED <<platform, config, current_video, progress, attempts, info, last_d, exc, result_message, outcome>>
                   /\ UNCHANGED ui_vars

\* line 193: extract_info(url, download=False) raises
ProbeRaises(r) == /\ pc[r] = "probing"
                  /\ \E msg \in ProbeMessages : exc' = [exc EXCEPT ![r] = [site |-> "probe", msg |-> msg]]
                  /\ ydl_calls' = [ydl_calls EXCEPT ![r].probe = @ + 1]
                  /\ pc' = [pc EXCEPT ![r] = "raised"]
                  /\ UNCHANGED <<platform, config, current_video, progress, attempts, info_dict, info, last_d, result_message, outcome>>
                  /\ UNCHANGED ui_vars

\* lines 195-200: count the available entries of a playlist; `'entries' in
\* None` raises TypeError. info_dict is not read again afterwards.
CountEntries(r) == /\ pc[r] = "probed"
                   /\ IF info_dict[r] = NoneInfo
                      THEN /\ exc' = [exc EXCEPT ![r] = [site |-> "probe_result", msg |-> MsgNoneType]]
                           /\ pc' = [pc EXCEPT ![r] = "raised"]
                           /\ UNCHANGED <<current_video, progress, last_d>>
                      ELSE /\ IF HasEntries(info_dict[r]) /\ is_playlist(config[r].url)
                              THEN /\ current_video' = [current_video EXCEPT ![r] = [@ EXCEPT !.total = Len(Available(info_dict[r].entries)), !.num = 1]]
                                   /\ progress' = [progress EXCEPT ![r] = Call(Frac(2, 100), "Found", 0, Len(Available(info_dict[r].entries)), "")]
                              ELSE UNCHANGED <<current_video, progress>>
                           /\ last_d' = [last_d EXCEPT ![r] = NoEvent]
                           /\ pc' = [pc EXCEPT ![r] = "downloading"]
                           /\ exc' = exc
                   /\ info_dict' = [info_dict EXCEPT ![r] = NoneInfo]
                   /\ UNCHANGED <<platform, config, attempts, ydl_calls, info, result_message, outcome>>
                   /\ UNCHANGED ui_vars

\* a progress hook whose current_video is one dictionary of the class,
\* shared by all managers
ProgressHook_shared_video(r) == /\ pc[r] = "downloading"
                                /\ \E d \in Events :
                                      /\ d.status = "finished" => current_video[r].num <= MaxNum
                                      /\ LET after == progress_hook(config[r], current_video[r], progress[r], d)
                                         IN /\ current_video' = [s \in Runs |-> after.current_video]
                                            /\ progress' = [progress EXCEPT ![r] = after.progress]
                                      /\ last_d' = [last_d EXCEPT ![r] = d]
                                /\ UNCHANGED <<platform, config, pc, attempts, ydl_calls, info_dict, info, exc, result_message, outcome>>
                                /\ UNCHANGED ui_vars

\* the library calls progress_hook(d) during extract_info(url, download=True)
ProgressHook(r) == /\ pc[r] = "downloading"
                   /\ \E d \in Events :
                         /\ d.status = "finished" => current_video[r].num <= MaxNum
                         /\ LET after == progress_hook(config[r], current_video[r], progress[r], d)
                            IN /\ current_video' = [current_video EXCEPT ![r] = after.current_video]
                               /\ progress' = [progress EXCEPT ![r] = after.progress]
                         /\ last_d' = [last_d EXCEPT ![r] = d]
                   /\ UNCHANGED <<platform, config, pc, attempts, ydl_calls, info_dict, info, exc, result_message, outcome>>
                   /\ UNCHANGED ui_vars

\* line 203: extract_info(url, download=True) returns metadata or None, and
\* the caller runs on without a further call of the library. `'entries' in
\* None` raises TypeError (line 206); otherwise lines 205-211 format the
\* result, line 166 adds the note of the fallback, and lines 171-177 call
\* progress(1.0), build the notification and return the pair.
DownloadReturns(r) == /\ pc[r] = "downloading"
                      /\ \E m \in Metadata \cup {NoneInfo} :
                            /\ info' = [info EXCEPT ![r] = m]
                            /\ IF m = NoneInfo
                               THEN /\ exc' = [exc EXCEPT ![r] = [site |-> "download_result", msg |-> MsgNoneType]]
                                    /\ pc' = [pc EXCEPT ![r] = "raised"]
                                    /\ UNCHANGED <<result_message, outcome, progress>>
                               ELSE LET text == result_text(config[r], m, attempts[r])
                                    IN /\ result_message' = [result_message EXCEPT ![r] = text]
                                       /\ progress' = [progress EXCEPT ![r] = Call(FInt(1), "Complete", 0, 0, "")]
                                       /\ outcome' = [outcome EXCEPT ![r] = [text |-> text, notification |-> create_notification(config[r], m)]]
                                       /\ pc' = [pc EXCEPT ![r] = "done"]
                                       /\ UNCHANGED exc
                      /\ ydl_calls' = [ydl_calls EXCEPT ![r].download = @ + 1]
                      /\ last_d' = [last_d EXCEPT ![r] = NoEvent]
                      /\ UNCHANGED <<platform, config, current_video, attempts, info_dict>>
                      /\ UNCHANGED ui_vars

\* line 203: extract_info(url, download=True) raises
DownloadRaises(r) == /\ pc[r] = "downloading"
                     /\ \E msg \in DownloadMessages : exc' = [exc EXCEPT ![r] = [site |-> "download", msg |-> msg]]
                     /\ ydl_calls' = [ydl_calls EXCEPT ![r].download = @ + 1]
                     /\ last_d' = [last_d EXCEPT ![r] = NoEvent]
                     /\ pc' = [pc EXCEPT ![r] = "raised"]
                     /\ UNCHANGED <<platform, config, current_video, progress, attempts, info_dict, info, result_message, outcome>>
                     /\ UNCHANGED ui_vars

\* lines 157-165: the first _perform_download raised an audio failure:
\* progress(0.1), update_to_m4a and the second call of _perform_download
RetryWithM4a(r) == /\ pc[r] = "raised"
                   /\ attempts[r] = 1
                   /\ IsAudioFailure(config[r], exc[r].msg)
                   /\ exc' = [exc EXCEPT ![r] = NoExc]
                   /\ progress' = [progress EXCEPT ![r] = Call(Frac(1, 10), "TryingM4A", 0, 0, "")]
                   /\ config' = [config EXCEPT ![r] = update_to_m4a(config[r])]
                   /\ attempts' = [attempts EXCEPT ![r] = 2]
                   /\ pc' = [pc EXCEPT ![r] = "probing"]
                   /\ UNCHANGED <<platform, current_video, ydl_calls, info_dict, info, last_d, result_message, outcome>>
                   /\ UNCHANGED ui_vars

\* lines 167-169 and 178-184: any other exception, and any exception of the
\* second _perform_download, reaches the outer handler
Fail(r) == /\ pc[r] = "raised"
           /\ ~(attempts[r] = 1 /\ IsAudioFailure(config[r], exc[r].msg))
           /\ outcome' = [outcome EXCEPT ![r] = error_result(config[r], exc[r].msg)]
           /\ pc' = [pc EXCEPT ![r] = "failed"]
           /\ UNCHANGED <<platform, config, current_video, progress, attempts, ydl_calls, info_dict, info, last_d, exc, result_message>>
           /\ UNCHANGED ui_vars

Next == \E r \in Runs : \/ RejectEmptyUrl(r)
                        \/ StartDownload(r)
                        \/ ProbeReturns(r)
                        \/ ProbeRaises(r)
                        \/ CountEntries(r)
                        \/ ProgressHook(r)
                        \/ DownloadReturns(r)
                        \/ DownloadRaises(r)
                        \/ RetryWithM4a(r)
                        \/ Fail(r)

Spec == Init /\ [][Next]_vars

\* ------------------------------------------------------------------------
\* The configuration under calls of update_to_m4a from outside the run
\* ------------------------------------------------------------------------
\* update_to_m4a is a public method: a caller holding the configuration may
\* call it at any point of a run, any number of times
CallUpdateToM4a(r) == /\ pc[r] # "absent"
                      /\ config' = [config EXCEPT ![r] = update_to_m4a(config[r])]
                      /\ UNCHANGED <<platform, current_video, progress, pc, attempts, ydl_calls, info_dict, info, last_d, exc, result_message, outcome>>
                      /\ UNCHANGED ui_vars

NextCfg == \/ Next
           \/ \E r \in Runs : CallUpdateToM4a(r)

SpecCfg == Init /\ [][NextCfg]_vars

\* ------------------------------------------------------------------------
\* The page and the URL classifier
\* ------------------------------------------------------------------------
PrefixWww == <<"w","w","w",".">>

HostYoutube == <<"y","o","u","t","u","b","e",".","c","o","m">>

HostYoutuBe == <<"y","o","u","t","u",".","b","e">>

HostVimeo == <<"v","i","m","e","o",".","c","o","m">>

PathPlaylist == <<"/","p","l","a","y","l","i","s","t">>

PathWatch == <<"/","w","a","t","c","h">>

PathShowcaseItem == <<"/","s","h","o","w","c","a","s","e","/","9">>

PathShowcaseBare == <<"/","s","h","o","w","c","a","s","e">>

PathMedia == <<"/","m","e","d","i","a">>

QueryList == <<"?","l","i","s","t","=","P","L","1">>

QueryVideoList == <<"?","v","=","a","b","c","&","l","i","s","t","=","P","L","1">>

Prefixes == {<< >>, PrefixWww}

Hosts == {HostYoutube, HostYoutuBe, HostVimeo}

Paths == {PathPlaylist, PathWatch, PathShowcaseItem, PathShowcaseBare, PathMedia}

Queries == {<< >>, QueryList, QueryVideoList}

\* The values typed into the URL textbox
TypedUrls == {UrlParts(p, h, a, q) : p \in Prefixes, h \in Hosts, a \in Paths, q \in Queries} \cup {EmptyParts}

Whitespace == {" ", "\t", "\n", "\r"}

\* str.strip()
RECURSIVE Strip(_)
Strip(s) == IF s = << >> THEN s
            ELSE IF Head(s) \in Whitespace THEN Strip(Tail(s))
            ELSE IF s[Len(s)] \in Whitespace THEN Strip(SubSeq(s, 1, Len(s) - 1))
            ELSE s

\* lines 301-315: url_input.change calls check_url_type on the new value
check_url_type == \E u \in TypedUrls :
                     /\ u # url_input
                     /\ url_input' = u
                     /\ widgets' = [password_visible |-> is_vimeo_url(UrlText(u)),
                                    button_interactive |-> Len(Strip(UrlText(u))) > 0]
                     /\ UNCHANGED <<platform, config, current_video, progress, pc, attempts, ydl_calls, info_dict, info, last_d, exc, result_message, outcome, url_class>>

\* lines 10-24: the three classifiers applied to the value of the textbox
ClassifyUrl == /\ url_class' = [of |-> url_input,
                               vimeo |-> is_vimeo_url(UrlText(url_input)),
                               showcase |-> is_vimeo_showcase(UrlText(url_input)),
                               playlist |-> is_playlist(UrlText(url_input)),
                               classified |-> TRUE]
               /\ UNCHANGED <<platform, config, current_video, progress, pc, attempts, ydl_calls, info_dict, info, last_d, exc, result_message, outcome, url_input, widgets>>

\* the page is open and download_video has not been called
InitUrl == /\ platform = "unread"
           /\ config = [r \in Runs |-> DownloadConfig(UrlEmpty, NoneStr, FALSE, "unread")]
           /\ current_video = [r \in Runs |-> InitialVideo]
           /\ progress = [r \in Runs |-> NoCall]
           /\ pc = [r \in Runs |-> "absent"]
           /\ attempts = [r \in Runs |-> 0]
           /\ ydl_calls = [r \in Runs |-> [probe |-> 0, download |-> 0]]
           /\ info_dict = [r \in Runs |-> NoneInfo]
           /\ info = [r \in Runs |-> NoneInfo]
           /\ last_d = [r \in Runs |-> NoEvent]
           /\ exc = [r \in Runs |-> NoExc]
           /\ result_message = [r \in Runs |-> << >>]
           /\ outcome = [r \in Runs |-> NoOutcome]
           /\ url_input = EmptyParts
           /\ widgets = InitialWidgets
           /\ url_class = Unclassified

NextUrl == \/ check_url_type
           \/ ClassifyUrl

SpecUrl == InitUrl /\ [][NextUrl]_vars

\* ------------------------------------------------------------------------
\* Two concurrent calls of download_video
\* ------------------------------------------------------------------------
\* The requests of the two calls: an audio-only download of a YouTube
\* playlist, beside a video download of a Vimeo showcase, a second audio-only
\* download of the playlist, or a call with the empty URL
FirstRequests == {[url |-> UrlWatchList, video_password |-> NoneStr, audio_only |-> TRUE]}

SecondRequests == {[url |-> UrlShowcase, video_password |-> "secret", audio_only |-> FALSE],
                   [url |-> UrlWatchList, video_password |-> NoneStr, audio_only |-> TRUE],
                   [url |-> UrlEmpty, video_password |-> NoneStr, audio_only |-> FALSE]}

\* What the library does in the runs of the two calls: the metadata is a
\* single item or a collection of two items, an item reports one
\* 'downloading' event of known or of unknown size and 'finished', and the
\* failures are an HTTP error of the probe and a post-processor error of the
\* download
PairMetadata == {SingleInfo("A"), PlaylistInfo("PL", <<Entry("A"), Entry("A")>>)}

PairEvents == {d \in Events : /\ d.status \in {"downloading", "finished"}
                              /\ d.status = "downloading" => (d.downloaded_bytes = 1 /\ d.total_bytes \in {0, 1})}

PairMessages == {MsgPP}

PairLibrary == \A r \in Runs :
    /\ pc[r] = "probed" => info_dict[r] \in PairMetadata
    /\ pc[r] = "done" => info[r] \in PairMetadata
    /\ pc[r] = "raised" => exc[r].msg \in (IF exc[r].site = "probe" THEN {MsgHttp} ELSE PairMessages)
    /\ last_d[r] \in PairEvents \cup {NoEvent}
    /\ current_video[r].num <= 3

\* two calls of download_video have built their configurations and managers
\* (lines 271-272) in one process
InitPair == /\ platform = "linux"
            /\ \E q1 \in FirstRequests : \E q2 \in SecondRequests :
                  config = [r \in Runs |-> IF r = 1 THEN DownloadConfig(q1.url, q1.video_password, q1.audio_only, platform)
                                                     ELSE DownloadConfig(q2.url, q2.video_password, q2.audio_only, platform)]
            /\ current_video = [r \in Runs |-> InitialVideo]
            /\ progress = [r \in Runs |-> NoCall]
            /\ pc = [r \in Runs |-> "idle"]
            /\ attempts = [r \in Runs |-> 0]
            /\ ydl_calls = [r \in Runs |-> [probe |-> 0, download |-> 0]]
            /\ info_dict = [r \in Runs |-> NoneInfo]
            /\ info = [r \in Runs |-> NoneInfo]
            /\ last_d = [r \in Runs |-> NoEvent]
            /\ exc = [r \in Runs |-> NoExc]
            /\ result_message = [r \in Runs |-> << >>]
            /\ outcome = [r \in Runs |-> NoOutcome]
            /\ url_input = EmptyParts
            /\ widgets = InitialWidgets
            /\ url_class = Unclassified

\* the steps of the two runs, interleaved in any order
NextPair == \E r \in Runs : \/ (RejectEmptyUrl(r) /\ PairLibrary')
                            \/ (StartDownload(r) /\ PairLibrary')
                            \/ (ProbeReturns(r) /\ PairLibrary')
                            \/ (ProbeRaises(r) /\ PairLibrary')
                            \/ (CountEntries(r) /\ PairLibrary')
                            \/ (ProgressHook(r) /\ PairLibrary')
                            \/ (DownloadReturns(r) /\ PairLibrary')
                            \/ (DownloadRaises(r) /\ PairLibrary')
                            \/ (RetryWithM4a(r) /\ PairLibrary')
                            \/ (Fail(r) /\ PairLibrary')

SpecPair == InitPair /\ [][NextPair]_vars

\* ------------------------------------------------------------------------
\* Properties
\* ------------------------------------------------------------------------
\* The four substrings of the fallback policy, as the specification lists them
AudioFailureSubstrings == {SubMp3, SubConv, SubEnc, SubPP}

MatchesAudioFailure(msg) == \E sub \in AudioFailureSubstrings : Contains(Lower(msg), sub)

\* C1: _perform_download is invoked at most twice in a run. It is invoked a
\* second time exactly when the first invocation of an audio-only run raised
\* an error whose lower-cased message contains one of the four substrings,
\* and then after update_to_m4a; any other exception, and any exception of
\* the second invocation, ends the run as a Failure.
C1_RetryOnce == [][\A r \in Runs :
    LET matching == config[r].audio_only /\ MatchesAudioFailure(exc[r].msg)
    IN /\ attempts'[r] <= 2
       /\ ydl_calls'[r].probe <= attempts'[r]
       /\ ydl_calls'[r].download <= ydl_calls'[r].probe
       /\ (attempts'[r] # attempts[r]) => \/ (attempts[r] = 0 /\ attempts'[r] = 1 /\ pc[r] = "idle")
                                          \/ (attempts[r] = 1 /\ attempts'[r] = 2 /\ pc[r] = "raised" /\ matching)
       /\ (pc[r] = "raised" /\ pc'[r] # "raised") =>
             IF attempts[r] = 1 /\ matching
             THEN /\ attempts'[r] = 2
                  /\ pc'[r] = "probing"
                  /\ config'[r].file_extension = "m4a"
                  /\ config'[r].post_processors[1].preferredcodec = "m4a"
             ELSE /\ attempts'[r] = attempts[r]
                  /\ pc'[r] = "failed"
                  /\ outcome'[r].notification.kind = "Warning"]_vars

\* C1 witness: a run that retried once and whose retry failed
C1_Witness == attempts[1] = 2 /\ pc[1] = "failed" /\ ydl_calls[1].probe = 2

\* C2: a run with the empty URL calls neither the probe nor the download of
\* the library, makes no progress call and returns the empty-URL failure,
\* whatever the password and the audio-only flag.
C2_EmptyUrlRejected == \A r \in Runs : config[r].url = << >> =>
    /\ ydl_calls[r] = [probe |-> 0, download |-> 0]
    /\ attempts[r] = 0
    /\ progress[r] = NoCall
    /\ pc[r] \in {"absent", "idle", "failed"}
    /\ pc[r] = "failed" => (outcome[r].text = << [kind |-> "PleaseEnterUrl"] >> /\ outcome[r].notification.kind = "None")

\* C2 witness: an audio-only run with a password and the empty URL has returned
C2_Witness == config[1].url = << >> /\ pc[1] = "failed" /\ config[1].audio_only /\ config[1].video_password # NoneStr

\* The kinds of the progress calls that progress_hook makes
HookKinds == {"Downloading", "DownloadingMB", "VideoComplete", "DownloadComplete"}

\* C3: every fraction that progress_hook emits is None (indeterminate) or a
\* value in [0,1], for events with 0 <= downloaded_bytes <= total_bytes and
\* however many 'finished' events the library delivers.
C3_HookFractionNormalized == \A r \in Runs : progress[r].desc.kind \in HookKinds =>
    (IsNoneFrac(progress[r].value) \/ InUnitInterval(progress[r].value))

\* d made progress_hook call self.progress
Emits(d) == d.status = "downloading" /\ (d.total_bytes # 0 \/ d.downloaded_bytes # 0)

\* the step hands progress_hook of run r a 'downloading' event that follows a
\* 'downloading' event with fewer downloaded bytes, and both emit a fraction
IncreasingDownloadingStep(r) == /\ pc[r] = "downloading" /\ pc'[r] = "downloading"
                                /\ Emits(last_d[r]) /\ Emits(last_d'[r])
                                /\ last_d'[r].downloaded_bytes > last_d[r].downloaded_bytes
                                /\ current_video'[r].total = current_video[r].total
                                /\ ~IsNoneFrac(progress[r].value) /\ ~IsNoneFrac(progress'[r].value)

\* C4 as stated: across 'downloading' events with increasing downloaded
\* bytes the emitted fraction never decreases, also when events with known
\* and with unknown total_bytes are mixed.
C4_MonotoneMixed == [][\A r \in Runs : IncreasingDownloadingStep(r) => FLeq(progress[r].value, progress'[r].value)]_vars

\* C4 amended: across 'downloading' events with increasing downloaded bytes
\* that carry the same total_bytes (the same known size, or both unknown)
\* the emitted fraction never decreases.
C4_MonotoneSameTotal == [][\A r \in Runs : (IncreasingDownloadingStep(r) /\ last_d'[r].total_bytes = last_d[r].total_bytes)
                                             => FLeq(progress[r].value, progress'[r].value)]_vars

\* C4 witness: a multi-item run got a 'downloading' event of known size with
\* more than one byte downloaded while an item after the first is current
C4_Witness == /\ pc[1] = "downloading"
              /\ IsMulti(config[1], current_video[1])
              /\ current_video[1].num = 2
              /\ last_d[1].status = "downloading"
              /\ last_d[1].total_bytes = 2
              /\ last_d[1].downloaded_bytes = 2
              /\ progress[1].desc.kind = "Downloading"

\* C5: a 'finished' event of a single-item run emits 1.0, and the last
\* progress call of every successful run is 1.0.
C5_FinalFractionOne == \A r \in Runs :
    /\ (pc[r] = "downloading" /\ last_d[r].status = "finished" /\ ~IsMulti(config[r], current_video[r]))
          => (progress[r].desc.kind = "DownloadComplete" /\ ~IsNoneFrac(progress[r].value) /\ FEq(progress[r].value, FInt(1)))
    /\ pc[r] = "done" => (outcome[r].notification.kind = "Success" /\ ~IsNoneFrac(progress[r].value) /\ FEq(progress[r].value, FInt(1)))

\* C5 witness: a single-item run has handled a 'finished' event
C5_Witness == pc[1] = "downloading" /\ last_d[1].status = "finished" /\ ~IsMulti(config[1], current_video[1]) /\ current_video[1].total = 1

\* the number of null entries of a collection
NullCount(m) == Cardinality({i \in 1..Len(m.entries) : m.entries[i] = NoneEntry})

IsEntryLine(l) == l.kind \in {"Entry", "EntrySkipped"}

IsNumberLine(l) == l.kind = "Number"

\* C6: for a collection of N entries of which k are null, totalItems is set
\* to N-k when the probe returns it, and the summary of the download reports
\* N-k downloaded of N, with one line per entry in order, the null entries
\* and only they marked as skipped.
C6_AccessibleCount == [][\A r \in Runs :
    /\ (pc[r] = "probed" /\ pc'[r] = "downloading" /\ HasEntries(info_dict[r]))
          => current_video'[r].total = Len(info_dict[r].entries) - NullCount(info_dict[r])
    /\ (pc[r] = "downloading" /\ pc'[r] = "done" /\ HasEntries(info'[r]))
          => LET m == info'[r]
                 numbers == SelectSeq(outcome'[r].text, IsNumberLine)
                 lines == SelectSeq(outcome'[r].text, IsEntryLine)
             IN /\ Len(numbers) = 1
                /\ numbers[1].downloaded = Len(m.entries) - NullCount(m)
                /\ numbers[1].total = Len(m.entries)
                /\ Len(lines) = Len(m.entries)
                /\ \A i \in 1..Len(lines) : lines[i].i = i /\ (lines[i].kind = "EntrySkipped" <=> m.entries[i] = NoneEntry)]_vars

\* C7: update_to_m4a applied to its own result changes nothing, and after a
\* call on an audio-only configuration file_extension equals the target
\* codec of the post-processing step.
C7_Idempotent == [][\A r \in Runs : config'[r] = update_to_m4a(config[r]) =>
    /\ update_to_m4a(config'[r]) = config'[r]
    /\ config'[r].audio_only => (config'[r].file_extension = config'[r].post_processors[1].preferredcodec /\ config'[r].file_extension = "m4a")]_vars

\* C7 witness: update_to_m4a has changed an audio-only configuration
C7_Witness == config[1].audio_only /\ platform = "linux" /\ config[1].file_extension = "m4a" /\ pc[1] = "idle"

\* C8: the extension and the target of the post-processing step agree in
\* every state: the codec for audio-only; for video the extension, the
\* convertor's format and the merge format are one container, and the
\* configuration is the one that was constructed.
C8_CodecExtensionAgree == \A r \in Runs :
    LET c == config[r]
    IN IF c.audio_only
       THEN c.file_extension = c.post_processors[1].preferredcodec /\ c.file_extension = c.preferred_codec
       ELSE /\ c.file_extension = c.post_processors[1].preferedformat
            /\ c.file_extension = get_ydl_opts(c).merge_output_format
            /\ c = DownloadConfig(c.url, c.video_password, FALSE, platform)
            /\ update_to_m4a(c) = c

\* C8 witness: a video run is downloading, and an audio-only run on the mp3
\* platform has been demoted
C8_Witness == \/ (~config[1].audio_only /\ pc[1] = "downloading")
              \/ (config[1].audio_only /\ platform = "linux" /\ config[1].file_extension = "m4a")

IsNoteLine(l) == l.kind = "Note"

IsPathLine(l) == l.kind \in {"Entry", "DownloadedTo"}

\* C9: a run that performed the fallback retry and whose retry succeeded
\* returns Success, its summary holds the note and its destination paths
\* carry the extension m4a; no other run's text holds the note.
C9_FallbackNote == \A r \in Runs :
    /\ (pc[r] = "done" /\ attempts[r] = 2)
          => /\ outcome[r].notification.kind = "Success"
             /\ Len(SelectSeq(outcome[r].text, IsNoteLine)) = 1
             /\ \A i \in 1..Len(outcome[r].text) : IsPathLine(outcome[r].text[i]) => outcome[r].text[i].path.ext = "m4a"
    /\ (\E i \in 1..Len(outcome[r].text) : IsNoteLine(outcome[r].text[i])) => (pc[r] = "done" /\ attempts[r] = 2 /\ config[r].audio_only)
    /\ (\E i \in 1..Len(result_message[r]) : IsNoteLine(result_message[r][i])) => (pc[r] = "done" /\ attempts[r] = 2)

\* C9 witness: the retry of an audio-only run on the mp3 platform succeeded
\* with a collection that has a destination path
C9_Witness == /\ pc[1] = "done" /\ attempts[1] = 2 /\ platform = "linux"
              /\ HasEntries(info[1]) /\ Len(Available(info[1].entries)) >= 1

\* C10: the fallback retry follows a failure of the download step only; an
\* exception of the metadata probe is never retried.
C10_OnlyDownloadFailureRetried == [][\A r \in Runs : (attempts[r] = 1 /\ attempts'[r] = 2) => exc[r].site = "download"]_vars

IsPlaylistHint(l) == l.kind = "PlaylistHint"

IsPasswordHint(l) == l.kind = "VimeoPasswordHint"

\* C11: the error text of a run that failed after the URL check starts with
\* the message of the exception that ended the run; it holds the playlist
\* hint exactly when is_playlist(url) and the password hint exactly when
\* is_vimeo_showcase(url).
C11_ErrorTextHints == \A r \in Runs : (pc[r] = "failed" /\ config[r].url # << >>) =>
    LET text == outcome[r].text
    IN /\ Len(text) >= 1
       /\ text[1] = [kind |-> "Error", msg |-> exc[r].msg]
       /\ exc[r].site # "none"
       /\ Len(SelectSeq(text, IsPlaylistHint)) = (IF is_playlist(config[r].url) THEN 1 ELSE 0)
       /\ Len(SelectSeq(text, IsPasswordHint)) = (IF is_vimeo_showcase(config[r].url) THEN 1 ELSE 0)
       /\ outcome[r].notification.kind = "Warning"

\* C11 witness: a run on a YouTube playlist URL failed in the download
C11_Witness == /\ pc[1] = "failed" /\ exc[1].site = "download"
               /\ is_playlist(config[1].url) /\ ~is_vimeo_showcase(config[1].url)

\* the URL has the YouTube playlist path
HasPlaylistPath(u) == u.host = HostYoutube /\ u.path = PathPlaylist

\* the URL is a YouTube URL with a list parameter in its query
HasListParameter(u) == u.host = HostYoutube /\ u.query \in {QueryList, QueryVideoList}

\* the URL has the Vimeo showcase path
HasShowcasePath(u) == u.host = HostVimeo /\ u.path = PathShowcaseItem

CountsEntries(r) == pc[r] = "probed" /\ pc'[r] = "downloading"

\* C13: whenever the probe returns a collection, totalItems is set to the
\* number of its accessible entries before the download starts, whatever the
\* URL text; totalItems is left at its initial 1 only for a probe result
\* that is not a collection.
C13_TotalFromProbeResult == [][\A r \in Runs : (CountsEntries(r) /\ HasEntries(info_dict[r])) =>
    /\ current_video'[r].total = Len(Available(info_dict[r].entries))
    /\ progress'[r] = Call(Frac(2, 100), "Found", 0, Len(Available(info_dict[r].entries)), "")]_vars

\* C14: current_video.num >= 0 and current_video.total >= 1 in every state
\* of a run, also after the probe of a collection whose entries are all None.
C14_ProgressStateRange == \A r \in Runs : current_video[r].num >= 0 /\ current_video[r].total >= 1

\* C15: in every attempt, the retry included, current_video holds the total
\* of this attempt's probe (and num = 1 for a collection) when the download
\* starts and so before its first progress event: nothing is left over from
\* before the probe or from the first attempt.
C15_TotalSetBeforeEvents == [][\A r \in Runs : CountsEntries(r) =>
    /\ last_d'[r] = NoEvent
    /\ IF HasEntries(info_dict[r])
       THEN current_video'[r].total = Len(Available(info_dict[r].entries)) /\ current_video'[r].num = 1
       ELSE current_video'[r].total = 1 /\ current_video'[r].num \in {0, 1}]_vars

\* everything run r owns: its configuration, its manager's state and its locals
RunState(r) == <<config[r], current_video[r], progress[r], pc[r], attempts[r], ydl_calls[r], info_dict[r], info[r], last_d[r], exc[r], result_message[r], outcome[r]>>

\* C16: with two calls running concurrently, a step of one run (an event of
\* its progress hook, its codec demotion, any other step) changes the state
\* of that run only; the configuration of a run changes in its own fallback
\* retry only and its progress state in its own probe and events only, and a
\* run that did not retry returns paths with the extension it was built with.
C16_RunsIsolated == [][\A r \in Runs :
    /\ \A s \in Runs \ {r} : RunState(s)' # RunState(s) => RunState(r)' = RunState(r)
    /\ config'[r] # config[r] => (pc[r] = "raised" /\ pc'[r] = "probing" /\ attempts[r] = 1)
    /\ current_video'[r] # current_video[r] => (pc[r] \in {"probed", "downloading"} /\ (pc[r] = "downloading" => last_d'[r] \in PairEvents))
    /\ (pc'[r] = "done" /\ attempts'[r] = 1) =>
          \A i \in 1..Len(outcome'[r].text) : IsPathLine(outcome'[r].text[i]) =>
                outcome'[r].text[i].path.ext = DownloadConfig(config[r].url, config[r].video_password, config[r].audio_only, platform).file_extension]_vars

\* C16 witness: run 1 has been demoted to m4a and is in its retry with the
\* second item current, while run 2, an audio-only run that still has its
\* mp3 configuration, has handled an event of its first item
C16_Witness == /\ pc[1] = "downloading" /\ attempts[1] = 2 /\ current_video[1].num = 2 /\ last_d[1] # NoEvent
               /\ pc[2] = "downloading" /\ attempts[2] = 1 /\ current_video[2].num = 1 /\ last_d[2] # NoEvent
               /\ config[2].audio_only /\ config[2].file_extension = "mp3" /\ config[1].file_extension = "m4a"

\* C17: a run fails from the probe or from the download only (the rejection
\* of the empty URL aside): once extract_info(url, download=True) has
\* returned, the run formats the result, ends as done and returns a Success,
\* whatever the library returned.
C17_NoFailureAfterDownload == [][\A r \in Runs :
    /\ (pc[r] = "raised" /\ pc'[r] = "failed") => exc[r].site \in {"probe", "probe_result", "download"}
    /\ (pc[r] = "downloading" /\ pc'[r] # "downloading" /\ exc'[r].site # "download")
          => (pc'[r] = "done" /\ outcome'[r].notification.kind = "Success")]_vars

\* C18: the notification of a successful run whose summary is in the
\* collection format reports the downloaded and the skipped count; they are
\* the counts of the summary, and their sum is the number of entries.
C18_NotificationCounts == \A r \in Runs : (pc[r] = "done" /\ HasEntries(info[r])) =>
    LET numbers == SelectSeq(outcome[r].text, IsNumberLine)
        note == outcome[r].notification
    IN /\ Len(numbers) = 1
       /\ note.kind = "Success"
       /\ note.playlist
       /\ note.downloaded = numbers[1].downloaded
       /\ note.skipped = numbers[1].total - numbers[1].downloaded
       /\ note.downloaded + note.skipped = Len(info[r].entries)

\* C19: the fallback retry runs with a target codec and a file extension
\* that differ from those of the attempt that failed, on every platform.
C19_RetryChangesCodec == [][\A r \in Runs : (attempts[r] = 1 /\ attempts'[r] = 2) =>
    /\ config'[r].file_extension # config[r].file_extension
    /\ config'[r].post_processors[1].preferredcodec # config[r].post_processors[1].preferredcodec
    /\ get_ydl_opts(config'[r]).postprocessors # get_ydl_opts(config[r]).postprocessors]_vars

====
